---------------------------- MODULE Spec2Model ----------------------------
(***************************************************************************)
(* Detection-and-actuation session of flight_scripts/                      *)
(* flight_detection_servo.py: main() and the helpers it calls.             *)
(*                                                                         *)
(* Time is counted in whole seconds.  Duty cycles are counted in tenths of *)
(* a percent (MIN_DUTY 2.5 -> 25).  One action is one step of main(); the  *)
(* tick of the while loop is split at the points where an interrupt or an  *)
(* exception can leave it.                                                 *)
(***************************************************************************)
EXTENDS Integers, Sequences, FiniteSets, TLC

\* ---- bounds of the exploration ----------------------------------------
MaxInterval == 2      \* --interval argument, seconds: 0..MaxInterval
MaxStep     == 1      \* longest ordinary delay of a read or a sleep
MaxTime     == 2      \* the clock is explored step by step up to here
MaxLog      == 2      \* no new tick is explored once the log has MaxLog rows
MaxContours == 3      \* longest contour list given to detect_color on its own
MaxBound    == 2      \* largest area bound tried for the selection on its own
MaxTicks    == 3      \* most loop iterations followed inside one FPS window

\* ---- program constants ------------------------------------------------
SecondsPerMinute == 60
MIN_AREA       == 10000
MAX_AREA       == 22000
SERVO_COOLDOWN == 1
MIN_DUTY       == 25
MAX_DUTY       == 125
OPEN_ANGLE     == 90
CLOSE_ANGLE    == 0
OPEN_TIME      == 2

\* --duration arguments explored, in minutes (type=int, default 60)
Durations == { 0, 1 }

None   == "None"
NoTime == 0 - 1000
NoPwm  == 0 - 1
NoFps  == 0 - 1
NoAngle == 0 - 1

VARIABLES
  pc,                \* position in main()
  now,               \* time.time()
  duration,          \* args.duration
  interval,          \* args.interval
  detections_only,   \* args.detections_only
  camera,            \* "unopened" | "open" | "released"
  h,                 \* "unset" | "ok" | None
  chip,              \* gpiochip: "closed" | "open"
  pin,               \* GPIO_PIN: "free" | "claimed"
  pwm,               \* duty cycle last sent with lgpio.tx_pwm, NoPwm before
  start_time,
  current_time,
  last_capture_time,
  last_servo_move,
  ret,               \* result flag of camera.read()
  detection_info,    \* None or <<cx, cy, area>>
  timestamp,         \* datetime.now() taken by the capture step
  images,            \* file names (their second) written in session_dir
  log,               \* rows of capture_log.csv after the header
  outcome,           \* how the try block was left
  session_dir,       \* name (second) of the session directory, NoTime before
  header,            \* header rows written to capture_log.csv
  root,              \* the output root: session directory -> its files
  input,             \* argument of a helper function analysed on its own
  output,            \* its result
  \* ---- history of the run, read by the properties only ----
  cmdTick,           \* command issued by the loop in the current tick
  lastPos,           \* current_time of the latest tick with a detection
  reDetectAt,        \* latest detection tick that fell inside a hold window
  due,               \* capture decision of the current tick
  saved,             \* what the capture step did with the image
  rowsTick,          \* rows appended in the current tick
  lct0,              \* last_capture_time when the tick started
  altMove,           \* last_servo_move of the same run under each cooldown
  \* ---- state followed outside the session specification ----
  frame_count,       \* ticks counted since the latest FPS report
  fps_time,          \* start of the FPS window
  fps_report,        \* frames per second printed by the tick, NoFps if none
  iterations,        \* loop iterations entered since the latest FPS report
  misses,            \* failed reads since the tick after the latest report
  held,              \* init_camera: devices opened, passed over, still open
  current_angle,     \* flight_servo.py: angle the sweep is at
  sweep,             \* flight_servo.py: angles commanded, in order
  cleanup            \* cleanup steps executed, in order

vars == << pc, now, duration, interval, detections_only, camera, h, chip, pin,
           pwm, start_time, current_time, last_capture_time, last_servo_move,
           ret, detection_info, timestamp, images, log, outcome,
           session_dir, header, root, input, output,
           cmdTick, lastPos, reDetectAt, due, saved, rowsTick, lct0, altMove,
           frame_count, fps_time, fps_report, iterations, misses, held,
           current_angle, sweep, cleanup >>

progVars == << duration, interval, detections_only >>
gpioVars == << h, chip, pin, pwm >>
sessVars == << session_dir, header, root >>
fnVars   == << input, output >>
auxVars  == << frame_count, fps_time, fps_report, iterations, misses, held,
              current_angle, sweep >>
tickHist == << cmdTick, lastPos, reDetectAt, due, saved, rowsTick, lct0,
              altMove >>

\* ---- pure helpers -----------------------------------------------------

\* line 152
TotalDuration(d) == d * SecondsPerMinute

total_duration == TotalDuration(duration)

DutyOfReversed(angle) == MAX_DUTY - ((MAX_DUTY - MIN_DUTY) * angle) \div 180

\* move_servo: the duty cycle sent for an angle
DutyOf(angle) == MIN_DUTY + ((MAX_DUTY - MIN_DUTY) * angle) \div 180

OPEN_DUTY   == DutyOf(OPEN_ANGLE)
CLOSED_DUTY == DutyOf(CLOSE_ANGLE)

\* A contour as the detection sees it: its contourArea and its moments.
Contour(a, m0, m1x, m1y) == [area |-> a, m00 |-> m0, m10 |-> m1x, m01 |-> m1y]

\* Frames the camera can deliver, as the list of contours of their mask.
Frames ==
  { << >>,
    << Contour(15000, 15000, 15000 * 3, 15000 * 2) >>,
    << Contour(25000, 25000, 25000 * 3, 25000 * 2) >>,
    << Contour(500, 500, 500, 500) >>,
    << Contour(500, 500, 500, 500),
       Contour(12000, 12000, 12000 * 5, 12000 * 4) >> }

RECURSIVE SelectFromLast(_, _, _, _)
SelectFromLast(contours, i, max_area, best) ==
  IF i > Len(contours) THEN best
  ELSE LET area == contours[i].area IN
       IF MIN_AREA <= area /\ area <= MAX_AREA /\ area >= max_area
       THEN SelectFromLast(contours, i + 1, area, i)
       ELSE SelectFromLast(contours, i + 1, max_area, best)

RECURSIVE SelectFromNoMax(_, _, _, _)
SelectFromNoMax(contours, i, max_area, best) ==
  IF i > Len(contours) THEN best
  ELSE LET area == contours[i].area IN
       IF MIN_AREA <= area /\ area > max_area
       THEN SelectFromNoMax(contours, i + 1, area, i)
       ELSE SelectFromNoMax(contours, i + 1, max_area, best)

RECURSIVE SelectWithinOrEqual(_, _, _, _, _, _)
SelectWithinOrEqual(contours, i, max_area, best, lo, hi) ==
  IF i > Len(contours) THEN best
  ELSE LET area == contours[i].area IN
       IF lo <= area /\ area <= hi /\ (area > max_area \/ best = 0)
       THEN SelectWithinOrEqual(contours, i + 1, area, i, lo, hi)
       ELSE SelectWithinOrEqual(contours, i + 1, max_area, best, lo, hi)

\* detect_color, lines 121-128, with the area window lo..hi: index of the
\* chosen contour, 0 for none
RECURSIVE SelectWithin(_, _, _, _, _, _)
SelectWithin(contours, i, max_area, best, lo, hi) ==
  IF i > Len(contours) THEN best
  ELSE LET area == contours[i].area IN
       IF lo <= area /\ area <= hi /\ area > max_area
       THEN SelectWithin(contours, i + 1, area, i, lo, hi)
       ELSE SelectWithin(contours, i + 1, max_area, best, lo, hi)

\* detect_color, lines 121-128, with the window of lines 18-19
SelectFrom(contours, i, max_area, best) ==
  SelectWithin(contours, i, max_area, best, MIN_AREA, MAX_AREA)

RoundNearest(n, d) == (2 * n + d) \div (2 * d)

detect_colorRounds(contours) ==
  LET best == SelectFrom(contours, 1, 0, 0) IN
  IF best # 0 /\ contours[best].m00 # 0
  THEN << RoundNearest(contours[best].m10, contours[best].m00),
          RoundNearest(contours[best].m01, contours[best].m00),
          contours[best].area >>
  ELSE None

detect_colorNoMomentTest(contours) ==
  LET best == SelectFrom(contours, 1, 0, 0) IN
  IF best = 0 THEN None
  ELSE IF contours[best].m00 # 0
  THEN << contours[best].m10 \div contours[best].m00,
          contours[best].m01 \div contours[best].m00,
          contours[best].area >>
  ELSE << 0, 0, contours[best].area >>

\* detect_color, lines 110-146
detect_color(contours) ==
  LET best == SelectFrom(contours, 1, 0, 0) IN
  IF best # 0 /\ contours[best].m00 # 0
  THEN << contours[best].m10 \div contours[best].m00,
          contours[best].m01 \div contours[best].m00,
          contours[best].area >>
  ELSE None

detection_found == detection_info # None

\* ---- the files under the output root ------------------------------------
\* A session directory holds capture_log.csv (header rows and rows) and the
\* frame files, named by their second.
NoDirs == [ d \in {} |-> [ header |-> 0, rows |-> << >>, frames |-> {} ] ]

EmptyDir == [ header |-> 0, rows |-> << >>, frames |-> {} ]

\* line 171: session_dir.mkdir(exist_ok=True) keeps a directory that exists
Mkdir(r, d) ==
  [ x \in DOMAIN r \cup { d } |-> IF x \in DOMAIN r THEN r[x] ELSE EmptyDir ]

\* lines 175-176: open(log_path, "w") empties the file, then the header
WriteHeader(r, d) == [ r EXCEPT ![d].header = 1, ![d].rows = << >> ]

AppendRowTruncating(r, d, row) == [ r EXCEPT ![d].rows = << row >> ]

\* lines 238-243: open(log_path, "a") and one f.write of a whole row
AppendRow(r, d, row) == [ r EXCEPT ![d].rows = Append(@, row) ]

\* save_image, lines 105-106: open(output_path, "wb") creates or replaces
WriteFrame(r, d, name) == [ r EXCEPT ![d].frames = @ \cup { name } ]

\* Clock readings a blocking call can return to: an ordinary delay, or a
\* stall that lasts until the deadline of the session has passed.
Elapse(t) ==
  { t } \cup { t + d : d \in { e \in 1..MaxStep : t + e <= MaxTime } }
    \cup { u \in { start_time + total_duration } : u > t /\ start_time # NoTime }

\* Values of SERVO_COOLDOWN for which the run is followed side by side
Cooldowns == { 0, 1, 2 }

InitialServoMoveLate(st, cooldown) == st + cooldown

\* line 187
InitialServoMove(st, cooldown) == st - cooldown

\* main() is entered: nothing is open, no session directory is chosen
InitMain ==
  /\ pc = "init_camera"
  /\ now = 0
  /\ duration \in Durations
  /\ interval \in 0..MaxInterval
  /\ detections_only \in BOOLEAN
  /\ camera = "unopened"
  /\ h = "unset"
  /\ chip = "closed"
  /\ pin = "free"
  /\ pwm = NoPwm
  /\ start_time = NoTime
  /\ current_time = NoTime
  /\ last_capture_time = NoTime
  /\ last_servo_move = NoTime
  /\ ret = FALSE
  /\ detection_info = None
  /\ timestamp = NoTime
  /\ images = {}
  /\ log = << >>
  /\ outcome = "running"
  /\ session_dir = NoTime
  /\ header = 0
  /\ input = None
  /\ output = None
  /\ cmdTick = "NONE"
  /\ lastPos = NoTime
  /\ reDetectAt = NoTime
  /\ due = "unset"
  /\ saved = "unset"
  /\ rowsTick = 0
  /\ lct0 = NoTime
  /\ altMove = [ c \in Cooldowns |-> NoTime ]
  /\ frame_count = 0
  /\ fps_time = NoTime
  /\ fps_report = NoFps
  /\ iterations = 0
  /\ misses = 0
  /\ held = {}
  /\ current_angle = NoAngle
  /\ sweep = << >>
  /\ cleanup = << >>

\* a session started with an empty output root
Init == InitMain /\ root = NoDirs

CameraFailTargetNoReturn == "init_servo"

\* lines 160-162: the RuntimeError of init_camera ends main
CameraFailTarget == "done"

\* lines 155-162: init_camera either returns an open device or raises
InitCamera ==
  /\ pc = "init_camera"
  /\ \E ok \in BOOLEAN :
       /\ now' = now
       /\ IF ok
          THEN camera' = "open" /\ pc' = "init_servo" /\ outcome' = outcome
          ELSE /\ camera' = camera
               /\ pc' = CameraFailTarget
               /\ outcome' = "camera_error"
  /\ UNCHANGED << progVars, fnVars, auxVars, sessVars,
                  gpioVars, start_time, current_time,
                  last_capture_time, last_servo_move, ret, detection_info,
                  timestamp, images, log, tickHist, cleanup >>

\* init_servo, lines 79-91: any of the three lgpio calls may raise, and the
\* handler returns None without undoing the calls that succeeded
InitServo ==
  /\ pc = "init_servo"
  /\ \E fail \in { "no", "open", "claim", "pwm" } :
       /\ h'    = IF fail = "no" THEN "ok" ELSE None
       /\ chip' = IF fail = "open" THEN "closed" ELSE "open"
       /\ pin'  = IF fail \in { "open", "claim" } THEN "free" ELSE "claimed"
       /\ pwm'  = IF fail = "no" THEN MIN_DUTY ELSE NoPwm
  /\ pc' = "setup"
  /\ UNCHANGED << now, progVars, fnVars, auxVars, sessVars,
                  camera, start_time, current_time,
                  last_capture_time, last_servo_move, ret, detection_info,
                  timestamp, images, log, outcome, tickHist, cleanup >>

\* lines 164-190: directories, log header, timers
Setup ==
  /\ pc = "setup"
  /\ session_dir' = now
  /\ root' = WriteHeader(Mkdir(root, now), now)
  /\ header' = header + root'[now].header
  /\ log' = root'[now].rows
  /\ start_time' = now
  /\ last_capture_time' = now
  /\ last_servo_move' = InitialServoMove(now, SERVO_COOLDOWN)
  /\ altMove' = [ c \in Cooldowns |-> InitialServoMove(now, c) ]
  /\ lct0' = now
  /\ pc' = "test"
  /\ UNCHANGED << now, progVars, fnVars, auxVars,
                  camera, gpioVars, current_time, ret,
                  detection_info, timestamp, images, outcome, cmdTick,
                  lastPos, reDetectAt, due, saved, rowsTick, cleanup >>

DeadlineNotReachedLax(t, st, td) == (t - st) <= td

\* lines 164-176 are outside every try block: an exception of mkdir or of
\* open (or a KeyboardInterrupt there) ends main() at once.  "mkdir": the
\* session directory was not created; "open": it was, the log was not.
SetupFail ==
  /\ pc = "setup"
  /\ \E at \in { "mkdir", "open" } :
       /\ root' = IF at = "open" THEN Mkdir(root, now) ELSE root
       /\ session_dir' = IF at = "open" THEN now ELSE session_dir
  /\ pc' = "done"
  /\ outcome' = "setup_error"
  /\ UNCHANGED << now, progVars, fnVars, auxVars, header,
                  camera, gpioVars, start_time, current_time,
                  last_capture_time, last_servo_move, ret, detection_info,
                  timestamp, images, log, tickHist, cleanup >>

\* line 193
DeadlineNotReached(t, st, td) == (t - st) < td

\* lines 193-194: the while test and the tick's time sample
\* (ret, detection_info and timestamp are assigned anew by every tick before
\* they are read, so their values of the previous tick are dropped here)
LoopTest ==
  /\ pc = "test"
  /\ IF DeadlineNotReached(now, start_time, total_duration)
     THEN /\ Len(log) < MaxLog
          /\ current_time' = now
          /\ pc' = "read"
          /\ outcome' = outcome
     ELSE /\ current_time' = current_time
          /\ pc' = "finally"
          /\ outcome' = "deadline"
  /\ cmdTick' = "NONE"
  /\ due' = "unset"
  /\ saved' = "unset"
  /\ rowsTick' = 0
  /\ lct0' = last_capture_time
  /\ ret' = FALSE
  /\ detection_info' = None
  /\ timestamp' = NoTime
  /\ UNCHANGED << now, progVars, fnVars, auxVars, sessVars,
                  camera, gpioVars, start_time,
                  last_capture_time, last_servo_move, images, log, lastPos,
                  reDetectAt, altMove, cleanup >>

AfterReadFallThrough(r) == "detect"

\* lines 206-208
AfterRead(r) == IF r THEN "detect" ELSE "test"

\* lines 205-208: a failed read abandons the tick with continue
Read ==
  /\ pc = "read"
  /\ now' \in Elapse(now)
  /\ ret' \in BOOLEAN
  /\ pc' = AfterRead(ret')
  /\ UNCHANGED << progVars, fnVars, auxVars, sessVars,
                  camera, gpioVars, start_time, current_time,
                  last_capture_time, last_servo_move, detection_info,
                  timestamp, images, log, outcome, tickHist, cleanup >>

AfterDetectCaptureFirst == "capture"

\* lines 214-218: the servo control follows the detection
AfterDetect == "servo"

\* lines 211-215, for a frame delivered out of the set frames
DetectIn(frames) ==
  /\ pc = "detect"
  /\ \E frame \in frames : detection_info' = detect_color(frame)
  /\ lastPos' = IF detection_info' # None THEN current_time ELSE lastPos
  /\ reDetectAt' = IF /\ detection_info' # None
                      /\ lastPos # NoTime
                      /\ current_time - lastPos < OPEN_TIME
                   THEN current_time ELSE reDetectAt
  /\ pc' = AfterDetect
  /\ UNCHANGED << now, progVars, fnVars, auxVars, sessVars,
                  camera, gpioVars, start_time, current_time,
                  last_capture_time, last_servo_move, ret, timestamp, images,
                  log, outcome, cmdTick, due, saved, rowsTick, lct0, altMove, cleanup >>

\* lines 211-215
Detect == DetectIn(Frames)

ServoCommandStrict(found, ct, lsm) ==
  IF found THEN "OPEN"
  ELSE IF ct - lsm > OPEN_TIME THEN "CLOSED"
  ELSE "NONE"

ServoCommandEdge(found, ct, lsm) ==
  IF found THEN (IF pwm = DutyOf(OPEN_ANGLE) THEN "NONE" ELSE "OPEN")
  ELSE IF ct - lsm >= OPEN_TIME THEN "CLOSED"
  ELSE "NONE"

ServoCommandNoHold(found, ct, lsm) == IF found THEN "OPEN" ELSE "CLOSED"

ServoCommandHoldFirst(found, ct, lsm) ==
  IF ct - lsm >= OPEN_TIME THEN "CLOSED"
  ELSE IF found THEN "OPEN"
  ELSE "NONE"

\* lines 219-225: the command the loop issues on a tick
ServoCommand(found, ct, lsm) ==
  IF found THEN "OPEN"
  ELSE IF ct - lsm >= OPEN_TIME THEN "CLOSED"
  ELSE "NONE"

NextServoMoveOnEdge(found, ct, lsm) ==
  IF found /\ pwm # DutyOf(OPEN_ANGLE) THEN ct ELSE lsm

\* line 222
NextServoMove(found, ct, lsm) == IF found THEN ct ELSE lsm

AngleOfWide(cmd) == IF cmd = "OPEN" THEN 3 * OPEN_ANGLE ELSE CLOSE_ANGLE

AngleOf(cmd) == IF cmd = "OPEN" THEN OPEN_ANGLE ELSE CLOSE_ANGLE

ServoEnabledAlways(hh) == TRUE

\* line 218
ServoEnabled(hh) == hh # None

\* lines 217-225
Servo ==
  /\ pc = "servo"
  /\ IF ServoEnabled(h)
     THEN LET cmd == ServoCommand(detection_found, current_time, last_servo_move) IN
          /\ cmdTick' = cmd
          /\ pwm' = IF cmd = "NONE" THEN pwm ELSE DutyOf(AngleOf(cmd))
          /\ last_servo_move' =
               NextServoMove(detection_found, current_time, last_servo_move)
          /\ altMove' =
               [ c \in Cooldowns |->
                   NextServoMove(detection_found, current_time, altMove[c]) ]
     ELSE UNCHANGED << cmdTick, pwm, last_servo_move, altMove >>
  /\ pc' = "capture"
  /\ UNCHANGED << now, progVars, fnVars, auxVars, sessVars,
                  camera, h, chip, pin, start_time,
                  current_time, last_capture_time, ret, detection_info,
                  timestamp, images, log, outcome, lastPos, reDetectAt, due,
                  saved, rowsTick, lct0, cleanup >>

IntervalElapsedEarly(ct, lct, iv) == (ct - lct) >= iv - 1

\* line 228
IntervalElapsed(ct, lct, iv) == (ct - lct) >= iv

WantImageAlways(only, found) == TRUE

\* line 233
WantImage(only, found) == ~only \/ found

\* lines 234-243: the row is written inside "if save_image(...)"
AfterSaveAlwaysLog(is_success) == "log"

AfterSaveInverted(is_success) == IF is_success THEN "stamp" ELSE "log"

AfterSave(is_success) == IF is_success THEN "log" ELSE "stamp"

\* lines 227-235 and save_image: the interval test, the file name and the
\* image write; imencode may report failure
Capture ==
  /\ pc = "capture"
  /\ IF IntervalElapsed(current_time, last_capture_time, interval)
     THEN /\ due' = "yes"
          /\ timestamp' = now
          /\ IF WantImage(detections_only, detection_found)
             THEN \E is_success \in BOOLEAN :
                    /\ images' = IF is_success THEN images \cup { now }
                                  ELSE images
                    /\ root' = IF is_success
                               THEN WriteFrame(root, session_dir, now)
                               ELSE root
                    /\ saved' = IF is_success THEN "written" ELSE "encfail"
                    /\ pc' = AfterSave(is_success)
             ELSE /\ images' = images
                  /\ root' = root
                  /\ saved' = "skipped"
                  /\ pc' = "stamp"
     ELSE /\ due' = "no"
          /\ UNCHANGED << timestamp, images, saved, root >>
          /\ pc' = "sleep"
  /\ UNCHANGED << now, progVars, fnVars, auxVars, session_dir, header,
                  camera, gpioVars, start_time, current_time,
                  last_capture_time, last_servo_move, ret, detection_info, log,
                  outcome, cmdTick, lastPos, reDetectAt, rowsTick, lct0,
                  altMove, cleanup >>

LogRowSwapped(ts, info) ==
  IF info # None
  THEN [ ts |-> ts, filepath |-> ts, detection_found |-> TRUE,
         center_x |-> info[2], center_y |-> info[1], area |-> info[3],
         servo_moved |-> TRUE ]
  ELSE [ ts |-> ts, filepath |-> ts, detection_found |-> FALSE,
         center_x |-> None, center_y |-> None, area |-> None,
         servo_moved |-> FALSE ]

LogRowCommanded(ts, info) ==
  IF info # None
  THEN [ ts |-> ts, filepath |-> ts, detection_found |-> TRUE,
         center_x |-> info[1], center_y |-> info[2], area |-> info[3],
         servo_moved |-> (cmdTick # "NONE") ]
  ELSE [ ts |-> ts, filepath |-> ts, detection_found |-> FALSE,
         center_x |-> None, center_y |-> None, area |-> None,
         servo_moved |-> (cmdTick # "NONE") ]

\* lines 239-243: the row written for a saved frame
LogRow(ts, info) ==
  IF info # None
  THEN [ ts |-> ts, filepath |-> ts, detection_found |-> TRUE,
         center_x |-> info[1], center_y |-> info[2], area |-> info[3],
         servo_moved |-> TRUE ]
  ELSE [ ts |-> ts, filepath |-> ts, detection_found |-> FALSE,
         center_x |-> None, center_y |-> None, area |-> None,
         servo_moved |-> FALSE ]

\* lines 237-243
Log ==
  /\ pc = "log"
  /\ root' = AppendRow(root, session_dir, LogRow(timestamp, detection_info))
  /\ log' = root'[session_dir].rows
  /\ rowsTick' = rowsTick + 1
  /\ pc' = "stamp"
  /\ UNCHANGED << now, progVars, fnVars, auxVars, session_dir, header,
                  camera, gpioVars, start_time, current_time,
                  last_capture_time, last_servo_move, ret, detection_info,
                  timestamp, images, outcome, cmdTick, lastPos, reDetectAt,
                  due, saved, lct0, altMove, cleanup >>

\* line 245: outside the "if" that decides about the image
NextCaptureTimeIfSaved(ct) == IF saved = "written" THEN ct ELSE last_capture_time

NextCaptureTime(ct) == ct

\* line 245
Stamp ==
  /\ pc = "stamp"
  /\ last_capture_time' = NextCaptureTime(current_time)
  /\ pc' = "sleep"
  /\ UNCHANGED << now, progVars, fnVars, auxVars, sessVars,
                  camera, gpioVars, start_time, current_time,
                  last_servo_move, ret, detection_info, timestamp, images, log,
                  outcome, tickHist, cleanup >>

\* line 248
Sleep ==
  /\ pc = "sleep"
  /\ now' \in Elapse(now)
  /\ pc' = "test"
  /\ UNCHANGED << progVars, fnVars, auxVars, sessVars,
                  camera, gpioVars, start_time, current_time,
                  last_capture_time, last_servo_move, ret, detection_info,
                  timestamp, images, log, outcome, tickHist, cleanup >>

TryPcs == { "test", "read", "detect", "servo", "capture", "log", "stamp",
            "sleep" }

\* lines 250-251: KeyboardInterrupt anywhere inside the try block
Interrupt ==
  /\ pc \in TryPcs
  /\ pc' = "finally"
  /\ outcome' = "interrupt"
  /\ UNCHANGED << now, progVars, fnVars, auxVars, sessVars,
                  camera, gpioVars, start_time, current_time,
                  last_capture_time, last_servo_move, ret, detection_info,
                  timestamp, images, log, tickHist, cleanup >>

\* line 252: an exception that no except clause catches still enters finally
RaiseTargetNoFinally == "done"

RaiseTarget == "finally"

\* any other exception raised by a call of the tick (camera.read, cvtColor,
\* tx_pwm, imencode/open, the log's open): no handler, the finally block runs
Raise ==
  /\ pc \in { "read", "detect", "capture", "log" } \/ (pc = "servo" /\ h = "ok")
  /\ pc' = RaiseTarget
  /\ outcome' = "exception"
  /\ UNCHANGED << now, progVars, fnVars, auxVars, sessVars,
                  camera, gpioVars, start_time, current_time,
                  last_capture_time, last_servo_move, ret, detection_info,
                  timestamp, images, log, tickHist, cleanup >>

\* line 255: the servo part of the cleanup runs when a handle exists
AfterReleaseInverted(hh) == IF hh = None THEN "cleanup_servo" ELSE "done"

AfterReleaseNoClose(hh) == IF hh # None THEN "cleanup_free" ELSE "done"

AfterRelease(hh) == IF hh # None THEN "cleanup_servo" ELSE "done"

\* line 254
ReleaseCamera ==
  /\ pc = "finally"
  /\ camera' = "released"
  /\ cleanup' = Append(cleanup, "camera_release")
  /\ pc' = AfterRelease(h)
  /\ UNCHANGED << now, progVars, fnVars, auxVars, sessVars,
                  gpioVars, start_time, current_time,
                  last_capture_time, last_servo_move, ret, detection_info,
                  timestamp, images, log, outcome, tickHist >>

\* line 256
CleanupServo ==
  /\ pc = "cleanup_servo"
  /\ pwm' = DutyOf(CLOSE_ANGLE)
  /\ cleanup' = Append(cleanup, "servo_close")
  /\ pc' = "cleanup_free"
  /\ UNCHANGED << now, progVars, fnVars, auxVars, sessVars,
                  camera, h, chip, pin, start_time,
                  current_time, last_capture_time, last_servo_move, ret,
                  detection_info, timestamp, images, log, outcome, tickHist >>

\* line 257
GpioFree ==
  /\ pc = "cleanup_free"
  /\ pin' = "free"
  /\ cleanup' = Append(cleanup, "gpio_free")
  /\ pc' = "cleanup_close"
  /\ UNCHANGED << now, progVars, fnVars, auxVars, sessVars,
                  camera, h, chip, pwm, start_time,
                  current_time, last_capture_time, last_servo_move, ret,
                  detection_info, timestamp, images, log, outcome, tickHist >>

\* lines 258-259
GpiochipClose ==
  /\ pc = "cleanup_close"
  /\ chip' = "closed"
  /\ cleanup' = Append(cleanup, "gpiochip_close")
  /\ pc' = "done"
  /\ UNCHANGED << now, progVars, fnVars, auxVars, sessVars,
                  camera, h, pin, pwm, start_time,
                  current_time, last_capture_time, last_servo_move, ret,
                  detection_info, timestamp, images, log, outcome, tickHist >>

Next ==
  \/ InitCamera
  \/ InitServo
  \/ Setup
  \/ SetupFail
  \/ LoopTest
  \/ Read
  \/ Detect
  \/ Servo
  \/ Capture
  \/ Log
  \/ Stamp
  \/ Sleep
  \/ Interrupt
  \/ Raise
  \/ ReleaseCamera
  \/ CleanupServo
  \/ GpioFree
  \/ GpiochipClose

Spec == Init /\ [][Next]_vars

\* ---- sessions in which every tick sees the target --------------------------

\* Frames in which detect_color finds a blob inside the area window
BlobFrames == { f \in Frames : detect_color(f) # None }

\* camera.read() delivers a frame
ReadA == Read /\ ret'

\* the frame shows the target
DetectA == DetectIn(BlobFrames)

NextA ==
  \/ InitCamera
  \/ InitServo
  \/ Setup
  \/ SetupFail
  \/ LoopTest
  \/ ReadA
  \/ DetectA
  \/ Servo
  \/ Capture
  \/ Log
  \/ Stamp
  \/ Sleep
  \/ Interrupt
  \/ Raise
  \/ ReleaseCamera
  \/ CleanupServo
  \/ GpioFree
  \/ GpiochipClose

SpecA == Init /\ [][NextA]_vars

\* ---- sessions in which no contour is inside the area window ---------------

\* Frames whose contours all have an area above MAX_AREA or below MIN_AREA
OutsideFrames ==
  { f \in Frames :
      \A i \in DOMAIN f : f[i].area > MAX_AREA \/ f[i].area < MIN_AREA }

\* the frame shows nothing of the target's size
DetectB == DetectIn(OutsideFrames)

NextB ==
  \/ InitCamera
  \/ InitServo
  \/ Setup
  \/ SetupFail
  \/ LoopTest
  \/ Read
  \/ DetectB
  \/ Servo
  \/ Capture
  \/ Log
  \/ Stamp
  \/ Sleep
  \/ Interrupt
  \/ Raise
  \/ ReleaseCamera
  \/ CleanupServo
  \/ GpioFree
  \/ GpiochipClose

SpecB == Init /\ [][NextB]_vars

\* ---- a session started in an output root that an earlier session used ----

\* Seconds in which the earlier session started: the one before this
\* session's start, and the same one
EarlierStarts == { 0 - 1, 0 }

\* The output root as an earlier run of main() left it: its session directory
\* s with the log (header and one row) and the frame of that row
LeftBy(s) ==
  [ d \in { s } |->
      [ header |-> 1, rows |-> << LogRow(s, None) >>, frames |-> { s } ] ]

InitSessions == InitMain /\ root \in { LeftBy(s) : s \in EarlierStarts }

SpecSessions == InitSessions /\ [][Next]_vars

\* ---- helper functions on their own -------------------------------------

\* Every variable of the session except input and output
mainVars == << pc, now, duration, interval, detections_only, camera, h, chip,
               pin, pwm, start_time, current_time, last_capture_time,
               last_servo_move, ret, detection_info, timestamp, images, log,
               outcome, session_dir, header, root, cmdTick, lastPos,
               reDetectAt, due, saved, rowsTick, lct0, altMove, cleanup,
               frame_count, fps_time, fps_report, iterations, misses, held,
               current_angle, sweep >>

\* State of the capture session while another part is analysed on its own
CaptureIdle ==
  /\ interval = 0
  /\ detections_only = FALSE
  /\ camera = "unopened"
  /\ last_capture_time = NoTime
  /\ last_servo_move = NoTime
  /\ detection_info = None
  /\ timestamp = NoTime
  /\ images = {}
  /\ log = << >>
  /\ session_dir = NoTime
  /\ header = 0
  /\ root = NoDirs
  /\ cmdTick = "NONE"
  /\ lastPos = NoTime
  /\ reDetectAt = NoTime
  /\ due = "unset"
  /\ saved = "unset"
  /\ rowsTick = 0
  /\ lct0 = NoTime
  /\ altMove = [ c \in Cooldowns |-> NoTime ]
  /\ held = {}

GpioIdle ==
  /\ h = "unset"
  /\ chip = "closed"
  /\ pin = "free"
  /\ pwm = NoPwm
  /\ cleanup = << >>

FpsIdle ==
  /\ duration = 0
  /\ current_time = NoTime
  /\ ret = FALSE
  /\ frame_count = 0
  /\ fps_time = NoTime
  /\ fps_report = NoFps
  /\ iterations = 0
  /\ misses = 0

SweepIdle ==
  /\ current_angle = NoAngle
  /\ sweep = << >>

\* The session does not run while a helper function is analysed on its own.
Idle ==
  /\ pc = "call"
  /\ now = 0
  /\ start_time = NoTime
  /\ outcome = "running"
  /\ CaptureIdle
  /\ GpioIdle
  /\ FpsIdle
  /\ SweepIdle

\* init_camera, line 48 (both variants)
backends == << "CAP_ANY", "CAP_V4L2", "CAP_GSTREAMER" >>

\* init_camera, line 52: range(2)
IndexCount == 2

CamPairs == { << backends[b], i >> : b \in DOMAIN backends, i \in 0..(IndexCount - 1) }

\* What trying one (backend, index) pair can do:
\*   "closed"          VideoCapture returns, isOpened() is False
\*   "raise_open"      VideoCapture or isOpened raises
\*   "raise_config"    the device opens and a later call (cap.set, cap.read)
\*                     raises
\*   "open"            the device opens and delivers frames
\*   "open_unreadable" the device opens and a read fails
CamOutcomes == { "closed", "raise_open", "raise_config", "open",
                 "open_unreadable" }

AcceptsWithoutTestRead(o, strict) == o \in { "open", "open_unreadable" }

\* flight_detection_servo.py lines 55-72 (strict = FALSE) and
\* cv_timed_capture.py lines 44-60 (strict = TRUE): is the pair returned
Accepts(o, strict) ==
  \/ o = "open"
  \/ (o = "open_unreadable" /\ ~strict)

NoCamera == << "RuntimeError", 0 - 1 >>

\* init_camera: backends in the outer loop, indices in the inner loop, the
\* first accepted pair is returned; a pair that raises is skipped (continue);
\* after the loops RuntimeError is raised
RECURSIVE CameraSearch(_, _, _, _)
CameraSearch(outcomes, strict, b, i) ==
  IF b > Len(backends) THEN NoCamera
  ELSE IF i >= IndexCount THEN CameraSearch(outcomes, strict, b + 1, 0)
  ELSE IF Accepts(outcomes[<< backends[b], i >>], strict)
       THEN << backends[b], i >>
       ELSE CameraSearch(outcomes, strict, b, i + 1)

init_camera(outcomes, strict) == CameraSearch(outcomes, strict, 1, 0)

\* Does trying the pair open the device
Opens(o) == o \in { "raise_config", "open", "open_unreadable" }

\* cv_timed_capture.py line 61, the only cap.release() of init_camera: after
\* a failed test read.  The except clause (both variants) has none.
ReleasedOnReject(o, strict) == o = "open_unreadable" /\ strict

\* The devices opened by the pairs tried before the search ended and never
\* passed to cap.release()
RECURSIVE Unreleased(_, _, _, _, _)
Unreleased(outcomes, strict, b, i, acc) ==
  IF b > Len(backends) THEN acc
  ELSE IF i >= IndexCount THEN Unreleased(outcomes, strict, b + 1, 0, acc)
  ELSE LET o == outcomes[<< backends[b], i >>] IN
       IF Accepts(o, strict) THEN acc
       ELSE Unreleased(outcomes, strict, b, i + 1,
                       IF Opens(o) /\ ~ReleasedOnReject(o, strict)
                       THEN acc \cup { << backends[b], i >> }
                       ELSE acc)

InitCam ==
  /\ Idle
  /\ input \in [ outcomes : [CamPairs -> CamOutcomes], strict : BOOLEAN ]
  /\ output = NoCamera

\* A VideoCapture object that was not released holds its device until the
\* interpreter finalises the object, which the code does not control: any
\* part of the unreleased devices may still be open when init_camera ends.
CallInitCamera ==
  /\ pc = "call"
  /\ output' = init_camera(input.outcomes, input.strict)
  /\ held' \in SUBSET Unreleased(input.outcomes, input.strict, 1, 0, {})
  /\ pc' = "returned"
  /\ UNCHANGED << now, duration, interval, detections_only, camera, h, chip,
                  pin, pwm, start_time, current_time, last_capture_time,
                  last_servo_move, ret, detection_info, timestamp, images, log,
                  outcome, session_dir, header, root, cmdTick, lastPos,
                  reDetectAt, due, saved, rowsTick, lct0, altMove, cleanup, input,
                  frame_count, fps_time, fps_report, iterations, misses,
                  current_angle, sweep >>

NextCam == CallInitCamera

SpecCam == InitCam /\ [][NextCam]_vars

\* Contours given to detect_color when it is analysed on its own: areas
\* below, inside (ends included) and above the window, equal areas, a zero
\* zeroth moment, centroids with fractional parts below and above one half.
ContourInputs ==
  { Contour(500, 2, 3, 1),
    Contour(10000, 1, 1, 1),
    Contour(12000, 4, 10, 7),
    Contour(15000, 4, 9, 4),
    Contour(15000, 0, 0, 0),
    Contour(15000, 3, 8, 6),
    Contour(22000, 2, 5, 1),
    Contour(25000, 5, 5, 5) }

ContourLists ==
  UNION { [1..n -> ContourInputs] : n \in 0..MaxContours }

NoOutput == [ best |-> 0 - 1, info |-> None ]

InitDetect ==
  /\ Idle
  /\ input \in ContourLists
  /\ output = NoOutput

\* detect_color applied to the contours of a frame's mask
CallDetectColor ==
  /\ pc = "call"
  /\ output' = [ best |-> SelectFrom(input, 1, 0, 0),
                 info |-> detect_color(input) ]
  /\ pc' = "returned"
  /\ UNCHANGED << now, duration, interval, detections_only, camera, h, chip,
                  pin, pwm, start_time, current_time, last_capture_time,
                  last_servo_move, ret, detection_info, timestamp, images, log,
                  outcome, session_dir, header, root, cmdTick, lastPos,
                  reDetectAt, due, saved, rowsTick, lct0, altMove, cleanup, input,
                  auxVars >>

NextDetect == CallDetectColor

SpecDetect == InitDetect /\ [][NextDetect]_vars

\* The selection loop on its own, for area windows 0 <= lo <= hi and contours
\* with areas from zero to just above the largest bound
AreaBounds ==
  { b \in (0..MaxBound) \X (0..MaxBound) : b[1] <= b[2] }

SmallContours == { Contour(a, a, 0, 0) : a \in 0..(MaxBound + 1) }

SmallLists == UNION { [1..n -> SmallContours] : n \in 0..MaxContours }

InitSelect ==
  /\ Idle
  /\ input \in [ bounds : AreaBounds, contours : SmallLists ]
  /\ output = NoOutput

\* lines 117-128: max_area = 0, best_cnt = None, then the loop
CallSelect ==
  /\ pc = "call"
  /\ output' = [ best |-> SelectWithin(input.contours, 1, 0, 0,
                                       input.bounds[1], input.bounds[2]),
                 info |-> None ]
  /\ pc' = "returned"
  /\ UNCHANGED << now, duration, interval, detections_only, camera, h, chip,
                  pin, pwm, start_time, current_time, last_capture_time,
                  last_servo_move, ret, detection_info, timestamp, images, log,
                  outcome, session_dir, header, root, cmdTick, lastPos,
                  reDetectAt, due, saved, rowsTick, lct0, altMove, cleanup, input,
                  auxVars >>

NextSelect == CallSelect

SpecSelect == InitSelect /\ [][NextSelect]_vars

\* ---- the FPS bookkeeping of the main loop, lines 189-208 ----------------
\* The counters only feed a print, so the session specification leaves them
\* alone; here the loop is followed with the rest of the tick as one step.

\* line 198: the length of the FPS window, in seconds
FPS_WINDOW == 1

WindowElapsedLate(ct, ft) == (ct - ft) > FPS_WINDOW

\* line 198
WindowElapsed(ct, ft) == (ct - ft) >= FPS_WINDOW

\* line 199, as printed by line 200: frames per second, in hundredths
Fps(fc, elapsed) == (100 * fc) \div elapsed

\* lines 185-190: the state when the try block is entered
InitFps ==
  /\ pc = "test"
  /\ now = 0
  /\ start_time = 0
  /\ outcome = "running"
  /\ duration \in Durations
  /\ current_time = NoTime
  /\ ret = FALSE
  /\ frame_count = 0
  /\ fps_time = 0
  /\ fps_report = NoFps
  /\ iterations = 0
  /\ misses = 0
  /\ input = None
  /\ output = None
  /\ CaptureIdle
  /\ GpioIdle
  /\ SweepIdle

\* lines 193-194
FpsTest ==
  /\ pc = "test"
  /\ IF DeadlineNotReached(now, start_time, total_duration)
     THEN /\ iterations < MaxTicks
          /\ current_time' = now
          /\ iterations' = iterations + 1
          /\ misses' = IF fps_report # NoFps THEN 0 ELSE misses
          /\ pc' = "count"
          /\ outcome' = outcome
     ELSE /\ UNCHANGED << current_time, iterations, misses >>
          /\ pc' = "finally"
          /\ outcome' = "deadline"
  /\ fps_report' = NoFps
  /\ UNCHANGED << now, progVars, fnVars, sessVars, camera, gpioVars,
                  start_time, last_capture_time, last_servo_move, ret,
                  detection_info, timestamp, images, log, tickHist, cleanup,
                  frame_count, fps_time, held, current_angle, sweep >>

\* lines 197-202
FpsCount ==
  /\ pc = "count"
  /\ IF WindowElapsed(current_time, fps_time)
     THEN /\ fps_report' = Fps(frame_count + 1, current_time - fps_time)
          /\ frame_count' = 0
          /\ fps_time' = current_time
          /\ iterations' = 0
     ELSE /\ frame_count' = frame_count + 1
          /\ UNCHANGED << fps_report, fps_time, iterations >>
  /\ pc' = "read"
  /\ UNCHANGED << now, progVars, fnVars, sessVars, camera, gpioVars,
                  start_time, current_time, last_capture_time, last_servo_move,
                  ret, detection_info, timestamp, images, log, outcome,
                  tickHist, cleanup, misses, held, current_angle, sweep >>

\* lines 205-208: a failed read goes straight back to the loop test
FpsRead ==
  /\ pc = "read"
  /\ now' \in Elapse(now)
  /\ ret' \in BOOLEAN
  /\ misses' = IF ret' THEN misses ELSE misses + 1
  /\ pc' = AfterRead(ret')
  /\ UNCHANGED << progVars, fnVars, sessVars, camera, gpioVars,
                  start_time, current_time, last_capture_time, last_servo_move,
                  detection_info, timestamp, images, log, outcome,
                  tickHist, cleanup, frame_count, fps_time, fps_report,
                  iterations, held, current_angle, sweep >>

\* lines 210-248: detection, servo, capture and the sleep of the tick
FpsRest ==
  /\ pc = "detect"
  /\ now' \in Elapse(now)
  /\ pc' = "test"
  /\ UNCHANGED << progVars, fnVars, auxVars, sessVars, camera, gpioVars,
                  start_time, current_time, last_capture_time, last_servo_move,
                  ret, detection_info, timestamp, images, log, outcome,
                  tickHist, cleanup >>

\* lines 250-251
FpsInterrupt ==
  /\ pc \in { "test", "count", "read", "detect" }
  /\ pc' = "finally"
  /\ outcome' = "interrupt"
  /\ UNCHANGED << now, progVars, fnVars, auxVars, sessVars, camera, gpioVars,
                  start_time, current_time, last_capture_time, last_servo_move,
                  ret, detection_info, timestamp, images, log, tickHist,
                  cleanup >>

NextFps == FpsTest \/ FpsCount \/ FpsRead \/ FpsRest \/ FpsInterrupt

SpecFps == InitFps /\ [][NextFps]_vars

\* ---- flight_servo.py: the standalone servo sweep -------------------------

\* flight_servo.py lines 9-12
INTERVAL_SEC  == 5
TOTAL_MINUTES == 5
TARGET_ANGLE  == 90
START_ANGLE   == 0

\* flight_servo.py lines 19-21, duty in tenths of a percent
angle_to_duty(angle) == MIN_DUTY + (angle * (MAX_DUTY - MIN_DUTY)) \div 180

\* flight_servo.py line 36
end_time == start_time + TOTAL_MINUTES * SecondsPerMinute

\* what the sweep never touches
notSweep == << progVars, fnVars, sessVars, camera, current_time,
               last_capture_time, last_servo_move, ret, detection_info,
               timestamp, images, log, tickHist, frame_count, fps_time,
               fps_report, iterations, misses, held >>

\* the script is started
InitSweep ==
  /\ pc = "open"
  /\ now = 0
  /\ start_time = NoTime
  /\ outcome = "running"
  /\ input = None
  /\ output = None
  /\ CaptureIdle
  /\ GpioIdle
  /\ FpsIdle
  /\ SweepIdle

\* flight_servo.py line 25
SweepOpen ==
  /\ pc = "open"
  /\ h' = "ok"
  /\ chip' = "open"
  /\ pc' = "claim"
  /\ UNCHANGED << now, start_time, outcome, pin, pwm, cleanup, current_angle,
                  sweep, notSweep >>

\* flight_servo.py line 28
SweepClaim ==
  /\ pc = "claim"
  /\ pin' = "claimed"
  /\ pc' = "start_pwm"
  /\ UNCHANGED << now, start_time, outcome, h, chip, pwm, cleanup,
                  current_angle, sweep, notSweep >>

\* flight_servo.py lines 31-37
SweepStart ==
  /\ pc = "start_pwm"
  /\ pwm' = angle_to_duty(START_ANGLE)
  /\ start_time' = now
  /\ current_angle' = START_ANGLE
  /\ pc' = "test"
  /\ UNCHANGED << now, outcome, h, chip, pin, cleanup, sweep, notSweep >>

\* flight_servo.py line 45
SweepTest ==
  /\ pc = "test"
  /\ pc' = IF now < end_time THEN "toggle" ELSE "return"
  /\ UNCHANGED << now, start_time, outcome, gpioVars, cleanup, current_angle,
                  sweep, notSweep >>

\* flight_servo.py lines 47-53
NextAngle(a) == IF a = START_ANGLE THEN TARGET_ANGLE ELSE START_ANGLE

\* flight_servo.py lines 47-56
SweepToggle ==
  /\ pc = "toggle"
  /\ current_angle' = NextAngle(current_angle)
  /\ pwm' = angle_to_duty(current_angle')
  /\ sweep' = Append(sweep, current_angle')
  /\ pc' = "sleep"
  /\ UNCHANGED << now, start_time, outcome, h, chip, pin, cleanup, notSweep >>

\* flight_servo.py line 59
SweepSleep ==
  /\ pc = "sleep"
  /\ now' = now + INTERVAL_SEC
  /\ pc' = "test"
  /\ UNCHANGED << start_time, outcome, gpioVars, cleanup, current_angle, sweep,
                  notSweep >>

\* flight_servo.py lines 62-64: after the loop
SweepReturn ==
  /\ pc = "return"
  /\ pwm' = angle_to_duty(START_ANGLE)
  /\ outcome' = "deadline"
  /\ pc' = "cleanup_free"
  /\ UNCHANGED << now, start_time, h, chip, pin, cleanup, current_angle, sweep,
                  notSweep >>

SweepTryPcs == { "open", "claim", "start_pwm", "test", "toggle", "sleep",
                 "return" }

\* flight_servo.py lines 66-67: KeyboardInterrupt anywhere in the try block;
\* the handler prints and falls into the finally block
SweepInterrupt ==
  /\ pc \in SweepTryPcs
  /\ outcome' = "interrupt"
  /\ pc' = "cleanup_free"
  /\ UNCHANGED << now, start_time, gpioVars, cleanup, current_angle, sweep,
                  notSweep >>

\* flight_servo.py line 70.  Interrupted before line 25 has bound h, the
\* call raises NameError; lgpio may refuse to free a pin that was not
\* claimed; either way line 71 is not reached.
SweepFree ==
  /\ pc = "cleanup_free"
  /\ IF h = "unset"
     THEN /\ outcome' = "exception"
          /\ pc' = "done"
          /\ UNCHANGED << pin, cleanup >>
     ELSE \/ /\ pin' = "free"
             /\ cleanup' = Append(cleanup, "gpio_free")
             /\ pc' = "cleanup_close"
             /\ outcome' = outcome
          \/ /\ pin = "free"
             /\ outcome' = "exception"
             /\ pc' = "done"
             /\ UNCHANGED << pin, cleanup >>
  /\ UNCHANGED << now, start_time, h, chip, pwm, current_angle, sweep,
                  notSweep >>

\* flight_servo.py line 71
SweepClose ==
  /\ pc = "cleanup_close"
  /\ chip' = "closed"
  /\ cleanup' = Append(cleanup, "chip_close")
  /\ pc' = "done"
  /\ UNCHANGED << now, start_time, outcome, h, pin, pwm, current_angle, sweep,
                  notSweep >>

NextSweep ==
  \/ SweepOpen \/ SweepClaim \/ SweepStart \/ SweepTest \/ SweepToggle
  \/ SweepSleep \/ SweepReturn \/ SweepInterrupt \/ SweepFree \/ SweepClose

SpecSweep == InitSweep /\ [][NextSweep]_vars

TypeOK ==
  /\ pc \in { "init_camera", "init_servo", "setup", "finally", "cleanup_servo",
              "cleanup_free", "cleanup_close", "done" } \cup TryPcs
  /\ h \in { "unset", "ok", None }
  /\ pwm \in { NoPwm, MIN_DUTY, OPEN_DUTY, CLOSED_DUTY }
  /\ cmdTick \in { "NONE", "OPEN", "CLOSED" }
  /\ Len(log) <= MaxLog


\* ---- properties -------------------------------------------------------

\* pcs of a tick at which the servo step of that tick has been executed
AfterServo == { "capture", "log", "stamp", "sleep" }

\* pcs of a tick at which the capture step of that tick has been executed
AfterCapture == { "log", "stamp", "sleep" }

\* The ways the tick loop is left
LoopOutcomes == { "deadline", "interrupt", "exception" }

Count(ev) == Cardinality({ i \in DOMAIN cleanup : cleanup[i] = ev })

\* C1: with the servo initialised, the loop issues CLOSED on a tick exactly
\* when the read succeeded, nothing was detected and current_time -
\* last_servo_move >= OPEN_TIME; last_servo_move is the time of the latest
\* tick with a detection once there was one, so no CLOSED is issued less than
\* OPEN_TIME after a positive tick.
C1_ClosedIffHoldElapsed ==
  /\ (cmdTick = "CLOSED") =>
       /\ h = "ok"
       /\ ret
       /\ ~detection_found
       /\ current_time - last_servo_move >= OPEN_TIME
       /\ (lastPos # NoTime => current_time - lastPos >= OPEN_TIME)
  /\ (h = "ok" /\ pc \in AfterServo /\ ~detection_found
        /\ current_time - last_servo_move >= OPEN_TIME) => cmdTick = "CLOSED"
  /\ (h = "ok" /\ pc \in TryPcs \ { "servo" } /\ lastPos # NoTime) =>
       last_servo_move = lastPos

C1_Witness ==
  /\ pc = "capture"
  /\ cmdTick = "CLOSED"
  /\ lastPos # NoTime
  /\ current_time - lastPos = OPEN_TIME

\* C2: on every tick with a successful read and a detection (servo
\* initialised) the loop issues OPEN and sets last_servo_move to the tick's
\* current_time, also when the actuator was already OPEN.
C2_OpenOnEveryPositiveTick ==
  (h = "ok" /\ pc \in AfterServo /\ detection_found) =>
    /\ ret
    /\ cmdTick = "OPEN"
    /\ pwm = OPEN_DUTY
    /\ last_servo_move = current_time

C2_Witness ==
  /\ pc = "capture"
  /\ h = "ok"
  /\ detection_found
  /\ reDetectAt = current_time
  /\ cmdTick = "OPEN"

\* C3: a detection inside the hold window resets the release timer: the loop
\* issues no CLOSED earlier than OPEN_TIME after the re-detection tick, and
\* until then the last command issued is OPEN.
C3_RedetectionResetsTimer ==
  /\ (cmdTick = "CLOSED" /\ reDetectAt # NoTime) =>
       current_time - reDetectAt >= OPEN_TIME
  /\ (h = "ok" /\ pc \in TryPcs /\ reDetectAt # NoTime
        /\ current_time - reDetectAt < OPEN_TIME) => pwm = OPEN_DUTY

C3_Witness ==
  /\ pc = "sleep"
  /\ h = "ok"
  /\ reDetectAt # NoTime
  /\ ~detection_found
  /\ current_time > reDetectAt
  /\ current_time - reDetectAt < OPEN_TIME
  /\ current_time - lastPos < OPEN_TIME
  /\ pwm = OPEN_DUTY

\* C4: the servo step of a tick without a detection and with current_time -
\* last_servo_move < OPEN_TIME issues no command and leaves last_servo_move
\* and the last commanded position as they were.
C4_NoCommandInHoldWindow ==
  [][ (/\ pc = "servo"
       /\ pc' = "capture"
       /\ ~detection_found
       /\ current_time - last_servo_move < OPEN_TIME)
      => (/\ cmdTick' = "NONE"
          /\ pwm' = pwm
          /\ last_servo_move' = last_servo_move) ]_vars

C4_Witness ==
  /\ pc = "capture"
  /\ h = "ok"
  /\ ret
  /\ ~detection_found
  /\ current_time - last_servo_move < OPEN_TIME
  /\ cmdTick = "NONE"
  /\ pwm = OPEN_DUTY

\* Position of a cleanup step in the steps executed so far, 0 when absent
At(ev) ==
  IF Count(ev) = 0 THEN 0
  ELSE CHOOSE i \in DOMAIN cleanup : cleanup[i] = ev

\* C5 as stated: the camera is released only after the actuator has been
\* commanded CLOSED and its resource released.
C5_CameraReleasedAfterActuator ==
  (h = "ok" /\ Count("camera_release") > 0) =>
    /\ Count("servo_close") > 0 /\ At("servo_close") < At("camera_release")
    /\ Count("gpio_free") > 0 /\ At("gpio_free") < At("camera_release")

CleanupOrder(hh) ==
  IF hh = "ok"
  THEN << "camera_release", "servo_close", "gpio_free", "gpiochip_close" >>
  ELSE << "camera_release" >>

\* C5 amended: on session end the cleanup steps run in the fixed order
\* camera release, then (servo initialised) CLOSED command, gpio_free,
\* gpiochip_close; there is no log file step, the log is closed after every
\* write.
C5_CleanupOrder ==
  /\ Len(cleanup) <= Len(CleanupOrder(h))
  /\ cleanup = SubSeq(CleanupOrder(h), 1, Len(cleanup))
  /\ (pc = "done" /\ outcome \in LoopOutcomes) => cleanup = CleanupOrder(h)
  /\ (pc \in TryPcs) => cleanup = << >>

C5_Witness ==
  /\ pc = "done"
  /\ h = "ok"
  /\ outcome = "deadline"
  /\ cleanup = << "camera_release", "servo_close", "gpio_free", "gpiochip_close" >>

\* C6: when a session that initialised the servo ends, the last command sent
\* before the GPIO is freed is CLOSED, whatever the loop had last commanded.
C6_ClosedBeforeGpioFreed ==
  /\ (h = "ok" /\ (pin = "free" \/ chip = "closed")) =>
       /\ pwm = CLOSED_DUTY
       /\ Count("servo_close") = 1
       /\ At("servo_close") < At("gpio_free")
  /\ (h = "ok" /\ pc = "done" /\ outcome \in LoopOutcomes) =>
       (pin = "free" /\ chip = "closed")

C6_Witness ==
  /\ pc = "done"
  /\ h = "ok"
  /\ outcome = "interrupt"
  /\ cmdTick = "OPEN"
  /\ current_time - last_servo_move < OPEN_TIME
  /\ pwm = CLOSED_DUTY
  /\ pin = "free"

CleanupEvents == { "camera_release", "servo_close", "gpio_free",
                   "gpiochip_close" }

\* C7: however the tick loop ends (deadline, KeyboardInterrupt, an exception
\* raised inside a tick) the cleanup runs exactly once: the camera release,
\* and with an initialised servo the CLOSED command and the GPIO release.
C7_CleanupExactlyOnce ==
  /\ \A ev \in CleanupEvents : Count(ev) <= 1
  /\ (outcome \in { "deadline", "interrupt", "exception" }) =>
       pc \in { "finally", "cleanup_servo", "cleanup_free", "cleanup_close",
                "done" }
  /\ (pc = "done" /\ outcome \in { "deadline", "interrupt", "exception" }) =>
       /\ Count("camera_release") = 1
       /\ camera = "released"
       /\ (h = "ok") =>
            /\ Count("servo_close") = 1
            /\ Count("gpio_free") = 1
            /\ Count("gpiochip_close") = 1

C7_Witness ==
  /\ pc = "done"
  /\ outcome = "exception"
  /\ h = "ok"
  /\ camera = "released"
  /\ Count("servo_close") = 1

C9_ImageWrittenIff ==
  /\ (pc \in AfterCapture /\ due = "yes") =>
       /\ (saved = "written") <=>
            ((~detections_only \/ detection_found) /\ saved # "encfail")
       /\ (saved = "written") => timestamp \in images
  /\ (due # "yes") => saved = "unset"
  /\ (detections_only /\ ~detection_found) => saved # "written"
  /\ \A t \in images : t >= start_time + interval

C9_Witness ==
  /\ pc = "log"
  /\ detections_only
  /\ detection_found
  /\ saved = "written"
  /\ images = { timestamp }

\* C10: a tick with a successful read and an elapsed interval sets
\* last_capture_time to its current_time, whether or not an image or a row was
\* written; a tick whose interval has not elapsed leaves it unchanged.
C10_CaptureTimeStamped ==
  /\ (pc \in { "sleep", "test" } /\ due = "yes") =>
       last_capture_time = current_time
  /\ (pc \in TryPcs /\ due # "yes") => last_capture_time = lct0
  /\ (pc \in { "log", "stamp" }) => (due = "yes" /\ last_capture_time = lct0)

C10_Witness ==
  /\ pc = "sleep"
  /\ due = "yes"
  /\ saved = "encfail"
  /\ rowsTick = 0
  /\ last_capture_time = current_time
  /\ current_time > lct0

\* A tick whose camera.read() has just failed
FailedRead == pc = "test" /\ ~ret /\ current_time # NoTime

FinalPcs == { "finally", "cleanup_servo", "cleanup_free", "cleanup_close",
              "done" }

\* C11: a failed frame read abandons the tick: nothing is detected, no
\* actuator command is issued, no image and no row is written,
\* last_servo_move and last_capture_time stay as they were, and the loop goes
\* on to its next test; it is left only by deadline, interrupt or exception.
C11_ReadFailureAbandonsTick ==
  /\ FailedRead =>
       /\ detection_info = None
       /\ cmdTick = "NONE"
       /\ due = "unset"
       /\ saved = "unset"
       /\ rowsTick = 0
       /\ last_capture_time = lct0
       /\ (lastPos = NoTime) => last_servo_move = start_time - SERVO_COOLDOWN
       /\ (lastPos # NoTime /\ h = "ok") => last_servo_move = lastPos
       /\ outcome = "running"
       /\ cleanup = << >>
  /\ (pc \in FinalPcs) => outcome # "running"

C11_Witness ==
  /\ FailedRead
  /\ h = "ok"
  /\ pwm = OPEN_DUTY
  /\ current_time - lastPos >= OPEN_TIME
  /\ interval > 0
  /\ current_time - last_capture_time >= interval
  /\ log = << >>

\* C13: when camera initialisation fails the session ends at once: the servo
\* is never initialised, no session directory and no log file is created, no
\* tick runs and no actuator command is issued.
C13_CameraFailureAborts ==
  (outcome = "camera_error") =>
    /\ pc = "done"
    /\ camera = "unopened"
    /\ h = "unset" /\ chip = "closed" /\ pin = "free" /\ pwm = NoPwm
    /\ session_dir = NoTime /\ header = 0 /\ log = << >> /\ images = {}
    /\ start_time = NoTime /\ current_time = NoTime
    /\ cmdTick = "NONE"
    /\ cleanup = << >>

C13_Witness == outcome = "camera_error" /\ pc = "done" /\ h = "unset"

\* C14: when init_servo returns None the session still runs its ticks with
\* detection, capture and logging, and no actuator command and no GPIO
\* release is ever attempted, the cleanup included.
C14_DegradedWithoutServo ==
  (h = None) =>
    /\ pwm = NoPwm
    /\ cmdTick = "NONE"
    /\ (start_time # NoTime) => last_servo_move = start_time - SERVO_COOLDOWN
    /\ Count("servo_close") = 0
    /\ Count("gpio_free") = 0
    /\ Count("gpiochip_close") = 0
    /\ (pc = "done" /\ outcome \in LoopOutcomes) =>
         cleanup = << "camera_release" >>
    /\ (pc = "sleep") =>
         ((rowsTick = 1) <=>
            (/\ IntervalElapsed(current_time, lct0, interval)
             /\ (~detections_only \/ detection_found)
             /\ saved # "encfail"))

C14_Witness ==
  /\ h = None
  /\ pc = "done"
  /\ Len(log) = 1
  /\ log[1].detection_found
  /\ images # {}
  /\ cleanup = << "camera_release" >>

Rank(p) ==
  CASE p = "test" -> 0 [] p = "read" -> 1 [] p = "detect" -> 2
    [] p = "servo" -> 3 [] p = "capture" -> 4 [] p = "log" -> 5
    [] p = "stamp" -> 6 [] p = "sleep" -> 7 [] OTHER -> 8

\* C15: no tick is started once time.time() - start_time >= duration * 60;
\* from then on the loop test leads to the cleanup, and inside a tick every
\* step moves on towards the next loop test, also when the read fails, so the
\* loop ends within one tick of the deadline.
C15_LoopEndsAtDeadline ==
  [][ /\ (pc = "test" /\ pc' = "read") =>
           now - start_time < duration * SecondsPerMinute
      /\ (pc = "test" /\ now - start_time >= duration * SecondsPerMinute) =>
           /\ ENABLED LoopTest
           /\ (pc' # pc => pc' = "finally")
      /\ (pc \in TryPcs /\ pc' \in TryPcs /\ pc' # pc) =>
           (pc' = "test" \/ Rank(pc') > Rank(pc)) ]_vars

C15_Witness ==
  /\ FailedRead
  /\ duration > 0
  /\ now - start_time >= duration * SecondsPerMinute
  /\ current_time - start_time < duration * SecondsPerMinute

\* C19: every row of capture_log.csv has servo_moved equal to the
\* detection_found of its tick, whether or not a command was issued and
\* whether or not the servo is initialised.
C19_ServoMovedMirrorsDetection ==
  /\ \A i \in DOMAIN log : log[i].servo_moved = log[i].detection_found
  /\ (rowsTick = 1) => log[Len(log)].servo_moved = detection_found

C19_Witness ==
  /\ pc = "stamp"
  /\ h = "ok"
  /\ rowsTick = 1
  /\ cmdTick = "CLOSED"
  /\ ~log[Len(log)].servo_moved

\* C20: a log row names a file only if the image of its tick was encoded and
\* written; no row names a file whose write was skipped or failed.
C20_PathOnlyForWrittenImage ==
  /\ \A i \in DOMAIN log : log[i].filepath \in images
  /\ (rowsTick = 1) =>
       /\ saved = "written"
       /\ log[Len(log)].filepath = timestamp

C20_Witness ==
  /\ pc = "stamp"
  /\ rowsTick = 1
  /\ ~detections_only
  /\ ~detection_found
  /\ log[1].filepath \in images

\* The (backend, index) pairs in the order the claim gives them
ExpectedOrder ==
  << << "CAP_ANY", 0 >>, << "CAP_ANY", 1 >>,
     << "CAP_V4L2", 0 >>, << "CAP_V4L2", 1 >>,
     << "CAP_GSTREAMER", 0 >>, << "CAP_GSTREAMER", 1 >> >>

\* The k-th pair opens and, in the strict variant, delivers its test frame
Succeeds(k) ==
  LET o == input.outcomes[ExpectedOrder[k]] IN
  IF input.strict THEN o = "open" ELSE o \in { "open", "open_unreadable" }

\* C12: init_camera returns the first pair, in the order backends CAP_ANY,
\* CAP_V4L2, CAP_GSTREAMER outer and indices 0, 1 inner, whose device opens
\* (and in the strict variant reads a test frame); it raises RuntimeError
\* exactly when no pair succeeds; a pair that raises is skipped.
C12_FirstWorkingPair ==
  (pc = "returned") =>
    /\ (output = NoCamera) <=> (\A k \in DOMAIN ExpectedOrder : ~Succeeds(k))
    /\ \A k \in DOMAIN ExpectedOrder :
         (Succeeds(k) /\ \A j \in 1..(k - 1) : ~Succeeds(j)) =>
           output = ExpectedOrder[k]

C12_Witness ==
  /\ pc = "returned"
  /\ input.strict
  /\ input.outcomes[<< "CAP_ANY", 0 >>] = "raise_open"
  /\ input.outcomes[<< "CAP_ANY", 1 >>] = "open_unreadable"
  /\ input.outcomes[<< "CAP_V4L2", 0 >>] = "raise_config"
  /\ input.outcomes[<< "CAP_V4L2", 1 >>] = "open"
  /\ input.outcomes[<< "CAP_GSTREAMER", 0 >>] = "open"
  /\ output = << "CAP_V4L2", 1 >>

InWindow(c) == MIN_AREA <= c.area /\ c.area <= MAX_AREA

\* Indices of the contours of the input whose area is inside the window
Qual == { i \in DOMAIN input : InWindow(input[i]) }

ChosenOf(cs, b) == IF b = 0 THEN << >> ELSE << cs[b] >>

\* C16: the selection loop chooses the contour of largest area among those
\* with MIN_AREA <= area <= MAX_AREA, the first one of them when several have
\* that area, none when there is none; the contours outside the window do not
\* change the choice.
C16_LargestQualifyingFirst ==
  (pc = "returned") =>
    /\ (Qual = {}) => output.best = 0
    /\ (Qual # {}) =>
         /\ output.best \in Qual
         /\ \A j \in Qual :
              /\ input[j].area <= input[output.best].area
              /\ (input[j].area = input[output.best].area) => output.best <= j
    /\ LET inside == SelectSeq(input, InWindow) IN
       ChosenOf(input, output.best)
         = ChosenOf(inside, SelectFrom(inside, 1, 0, 0))

C16_Witness ==
  /\ pc = "returned"
  /\ Len(input) = 3
  /\ input[1].area > MAX_AREA
  /\ InWindow(input[2])
  /\ input[3].area = input[2].area
  /\ input[3] # input[2]
  /\ output.best = 2

found == output.info # None

\* C17 as stated: a detection is reported exactly when some contour inside the
\* window has an area strictly above that of every other contour inside the
\* window and a non-zero zeroth moment.
C17_UniqueStrictMaximum ==
  (pc = "returned") =>
    (found <=>
       \E i \in Qual :
         /\ \A j \in Qual \ { i } : input[j].area < input[i].area
         /\ input[i].m00 # 0)

\* C17 amended: a detection is reported exactly when a contour inside the
\* window exists and the first contour of largest area among them has a
\* non-zero zeroth moment (equal largest areas do not prevent a detection);
\* when that contour's zeroth moment is zero nothing is reported.
C17_FirstMaximumWithMoment ==
  (pc = "returned") =>
    /\ found <=>
         \E i \in Qual :
           /\ \A j \in Qual : input[j].area <= input[i].area
           /\ \A j \in Qual : (j < i) => input[j].area < input[i].area
           /\ input[i].m00 # 0
    /\ (output.best # 0 /\ input[output.best].m00 = 0) => ~found

C17_Witness ==
  /\ pc = "returned"
  /\ Len(input) = 2
  /\ InWindow(input[1])
  /\ input[2].area = input[1].area
  /\ input[1].m00 # 0
  /\ input[2].m00 = 0
  /\ found

\* C18 as stated: the centroid is (m10/m00, m01/m00) rounded to the nearest
\* integer in each coordinate.
C18_CentroidRoundedToNearest ==
  (pc = "returned" /\ found) =>
    LET c == input[output.best] IN
    /\ output.info[1] = RoundNearest(c.m10, c.m00)
    /\ output.info[2] = RoundNearest(c.m01, c.m00)

\* C18 amended: for non-negative moments with m00 > 0 the centroid is
\* (m10/m00, m01/m00) with the fraction cut off (rounded down) in each
\* coordinate.
C18_CentroidTruncated ==
  (pc = "returned" /\ found) =>
    LET c == input[output.best] IN
    /\ output.info[1] * c.m00 <= c.m10
    /\ c.m10 < (output.info[1] + 1) * c.m00
    /\ output.info[2] * c.m00 <= c.m01
    /\ c.m01 < (output.info[2] + 1) * c.m00

C18_Witness ==
  /\ pc = "returned"
  /\ found
  /\ LET c == input[output.best] IN
     /\ 2 * (c.m10 % c.m00) > c.m00
     /\ 2 * (c.m01 % c.m00) < c.m00
     /\ output.info[1] * c.m00 < c.m10

\* The seven columns of capture_log.csv
Columns == { "ts", "filepath", "detection_found", "center_x", "center_y",
             "area", "servo_moved" }

\* C21: the log is append-only within a session: the header is written once,
\* by the session start, into an empty file; every later write adds one whole
\* row at the end; no step removes a row or changes an earlier one; the file
\* is at all times the header followed by whole rows.
C21_LogAppendOnly ==
  /\ [] ( /\ header <= 1
          /\ (session_dir = NoTime) => (header = 0 /\ log = << >>)
          /\ (pc \in TryPcs \cup FinalPcs /\ outcome # "setup_error"
                /\ session_dir # NoTime) =>
               /\ header = 1
               /\ root[session_dir].header = 1
               /\ root[session_dir].rows = log
          /\ \A i \in DOMAIN log : DOMAIN log[i] = Columns )
  /\ [][ /\ (header' # header) =>
              (pc = "setup" /\ header = 0 /\ header' = 1 /\ log' = << >>)
         /\ (pc = "log" /\ pc' = "stamp") =>
              /\ header = 1
              /\ Len(log') = Len(log) + 1
              /\ SubSeq(log', 1, Len(log)) = log
         /\ ~(pc = "log" /\ pc' = "stamp") => log' = log ]_vars

C21_Witness ==
  /\ pc = "stamp"
  /\ rowsTick = 1
  /\ Len(log) = 2
  /\ log[1].ts # log[2].ts
  /\ root[session_dir].rows = log

\* C22: a session directory is never reused: a session start chooses a
\* directory that no earlier session of the same output root has, and leaves
\* the log and the frames of every earlier session as they were.
C22_SessionDirNeverReused ==
  [][ (pc = "setup" /\ pc' = "test") =>
        /\ session_dir' \notin DOMAIN root
        /\ \A d \in DOMAIN root : d \in DOMAIN root' /\ root'[d] = root[d]
    ]_vars

\* C23: an interrupt takes effect only between ticks: when the loop was left
\* by an interrupt, the tick that issued an actuator command has also made
\* its capture decision, a due tick has set last_capture_time, and a written
\* image has its log row.
C23_CancelOnlyAtTickBoundary ==
  (outcome = "interrupt") =>
    /\ (cmdTick # "NONE") => due # "unset"
    /\ (due = "yes") => last_capture_time = current_time
    /\ (saved = "written") => rowsTick = 1

\* C24: when every tick reads a frame and detects a blob inside the window,
\* the loop issues OPEN on every tick and never CLOSED, the actuator stays at
\* the OPEN duty from the first tick until the cleanup, and every log row has
\* detection_found = True.
C24_AlwaysDetectedStaysOpen ==
  /\ ~FailedRead
  /\ (pc \in AfterServo) => detection_found
  /\ cmdTick # "CLOSED"
  /\ (h = "ok" /\ pc \in AfterServo) => cmdTick = "OPEN"
  /\ (h = "ok" /\ pc \in TryPcs \cup { "finally" }) =>
       IF last_servo_move >= start_time
       THEN pwm = OPEN_DUTY
       ELSE pwm = MIN_DUTY /\ log = << >>
  /\ \A i \in DOMAIN log : log[i].detection_found /\ log[i].servo_moved

C24_Witness ==
  /\ pc = "finally"
  /\ outcome = "deadline"
  /\ duration = 1
  /\ h = "ok"
  /\ pwm = OPEN_DUTY
  /\ Len(log) = 2
  /\ log[2].ts - log[1].ts >= OPEN_TIME

\* C25: when on every tick all contours are above MAX_AREA or below
\* MIN_AREA, no tick has a detection, no OPEN is ever issued, the actuator
\* never leaves the closed duty, and CLOSED is issued on exactly the ticks at
\* which the release hold has elapsed: current_time - last_servo_move >=
\* OPEN_TIME with last_servo_move still start_time - SERVO_COOLDOWN, so on
\* every tick from the first such one.
C25_NeverDetectedStaysClosed ==
  /\ detection_info = None
  /\ lastPos = NoTime
  /\ cmdTick # "OPEN"
  /\ pwm # OPEN_DUTY
  /\ (h = "ok") => pwm = CLOSED_DUTY
  /\ (h = "ok" /\ start_time # NoTime) =>
       last_servo_move = start_time - SERVO_COOLDOWN
  /\ (h = "ok" /\ pc \in AfterServo) =>
       ((cmdTick = "CLOSED") <=>
          (current_time - start_time >= OPEN_TIME - SERVO_COOLDOWN))
  /\ \A i \in DOMAIN log : ~log[i].detection_found

C25_Witness ==
  /\ pc = "sleep"
  /\ h = "ok"
  /\ cmdTick = "CLOSED"
  /\ pwm = CLOSED_DUTY
  /\ Len(log) = 2
  /\ log[1].ts = start_time
  /\ log[2].ts > log[1].ts

\* C26: whenever the camera was opened, the cleanup (at least the camera
\* release) has run when main() is left, on every path, those that fail
\* between the initialisation and the tick loop included.
C26_CleanupBeforeExit ==
  (pc = "done" /\ camera # "unopened") =>
    /\ camera = "released"
    /\ Count("camera_release") = 1
    /\ (h = "ok") => (pin = "free" /\ chip = "closed")

\* C27: a successful init_servo commands MIN_DUTY, which is the duty of
\* CLOSE_ANGLE, before the first tick; as long as no tick has had a detection
\* the loop issues no OPEN and the actuator stays at that duty.
C27_ClosedAtSessionStart ==
  /\ DutyOf(CLOSE_ANGLE) = MIN_DUTY
  /\ (h = "ok" /\ pc \in { "setup", "test" } /\ current_time = NoTime) =>
       pwm = MIN_DUTY
  /\ (h = "ok" /\ lastPos = NoTime) => (pwm = MIN_DUTY /\ cmdTick # "OPEN")
  /\ (h = "ok" /\ pc \in TryPcs /\ last_servo_move < start_time) =>
       pwm = MIN_DUTY
  /\ (cmdTick = "OPEN") => (detection_found /\ lastPos = current_time)

C27_Witness ==
  /\ pc = "servo"
  /\ h = "ok"
  /\ detection_found
  /\ current_time > start_time
  /\ last_servo_move < start_time
  /\ pwm = MIN_DUTY

\* C28: in a tick whose read succeeded the detection is computed first, then
\* the actuator decision is made, then the capture and log decision; the
\* detection is not recomputed in between, and the detection_found and
\* servo_moved of the tick's row are those of the detection that decided the
\* tick's actuator command.
C28_TickOrder ==
  /\ [] ( /\ (pc \in { "detect", "servo" } \cup AfterServo) => ret
          /\ (pc \in { "read", "detect" }) =>
               (cmdTick = "NONE" /\ due = "unset" /\ rowsTick = 0)
          /\ (pc = "servo") => (due = "unset" /\ rowsTick = 0)
          /\ (h = "ok" /\ pc \in AfterServo) =>
               cmdTick = ServoCommand(detection_found, current_time,
                                      last_servo_move)
          /\ (rowsTick = 1) =>
               /\ log[Len(log)].detection_found = detection_found
               /\ log[Len(log)].servo_moved = detection_found
               /\ (h = "ok") =>
                    (log[Len(log)].detection_found <=> cmdTick = "OPEN") )
  /\ [][ /\ (pc = "read" /\ pc' \in TryPcs \ { "read", "test" }) =>
              pc' = "detect"
         /\ (pc = "detect" /\ pc' \in TryPcs \ { "detect" }) => pc' = "servo"
         /\ (pc = "servo" /\ pc' \in TryPcs \ { "servo" }) => pc' = "capture"
         /\ (pc = "capture" /\ pc' \in TryPcs \ { "capture" }) =>
              pc' \in { "log", "stamp", "sleep" }
         /\ (pc \in { "servo" } \cup AfterServo /\ pc' \in AfterServo) =>
              detection_info' = detection_info
         /\ (pc \in AfterServo /\ pc' \in AfterServo) => cmdTick' = cmdTick
       ]_vars

C28_Witness ==
  /\ pc = "stamp"
  /\ h = "ok"
  /\ rowsTick = 1
  /\ Len(log) = 2
  /\ ~log[1].detection_found
  /\ log[2].detection_found
  /\ cmdTick = "OPEN"

\* C29: every tick ends with the pacing sleep: the loop test that follows a
\* tick is reached from the sleep only, also when the frame read failed.
C29_SleepBeforeNextTick ==
  [][ (pc \in TryPcs \ { "test" } /\ pc' = "test") => pc = "sleep" ]_vars

\* The command the servo step issues in the run with cooldown c
AltCommand(c) == ServoCommand(detection_found, current_time, altMove[c])

\* The duty that run has commanded after the step
AltDuty(c) ==
  IF AltCommand(c) = "NONE" THEN pwm ELSE DutyOf(AngleOf(AltCommand(c)))

\* C30 as stated: for the same tick times and detection outcomes the loop
\* issues the same command on every tick for every value of SERVO_COOLDOWN.
C30_CooldownNotInLogic ==
  [][ (pc = "servo" /\ pc' = "capture" /\ h = "ok") =>
        \A c \in Cooldowns : AltCommand(c) = cmdTick' ]_vars

\* C30 amended: SERVO_COOLDOWN enters the logic only as the initial value of
\* last_servo_move.  For every value the OPEN commands, every command from
\* the first tick with a detection on and the duty commanded after every tick
\* are the same; before the first detection the value decides on which ticks
\* CLOSED is issued: those with current_time - (start_time - SERVO_COOLDOWN)
\* >= OPEN_TIME.
C30_CooldownOnlyBeforeFirstDetection ==
  /\ [] ( (h = "ok" /\ start_time # NoTime) =>
            altMove[SERVO_COOLDOWN] = last_servo_move )
  /\ [][ (pc = "servo" /\ pc' = "capture" /\ h = "ok") =>
           \A c \in Cooldowns :
             /\ AltCommand(c) = "OPEN" <=> cmdTick' = "OPEN"
             /\ (lastPos # NoTime) =>
                  (AltCommand(c) = cmdTick' /\ altMove'[c] = last_servo_move')
             /\ (lastPos = NoTime) =>
                  (AltCommand(c) = "CLOSED" <=>
                     current_time - (start_time - c) >= OPEN_TIME)
             /\ AltDuty(c) = pwm' ]_vars

C30_Witness ==
  /\ pc = "capture"
  /\ h = "ok"
  /\ lastPos = NoTime
  /\ cmdTick = "CLOSED"
  /\ pwm = CLOSED_DUTY
  /\ ServoCommand(detection_found, current_time, altMove[0]) = "NONE"

\* Indices of the contours inside the window of the input
InBounds ==
  { i \in DOMAIN input.contours :
      /\ input.bounds[1] <= input.contours[i].area
      /\ input.contours[i].area <= input.bounds[2] }

\* C31 as stated: whenever a contour has an area inside [minArea, maxArea]
\* the selection loop picks a contour, for every 0 <= minArea <= maxArea,
\* minArea = 0 with a contour of area zero included.
C31_PicksWheneverInWindow ==
  (pc = "returned" /\ InBounds # {}) => output.best # 0

\* C31 amended: the selection loop picks a contour exactly when some contour
\* has an area inside [minArea, maxArea] that is greater than zero; the one
\* picked is inside the window and no contour inside the window is larger.  A
\* contour of area zero is never picked.
C31_PicksPositiveInWindow ==
  (pc = "returned") =>
    /\ (output.best # 0) <=>
         (\E i \in InBounds : input.contours[i].area > 0)
    /\ (output.best # 0) =>
         /\ output.best \in InBounds
         /\ input.contours[output.best].area > 0
         /\ \A j \in InBounds :
              input.contours[j].area <= input.contours[output.best].area

C31_Witness ==
  /\ pc = "returned"
  /\ input.bounds = << 0, 1 >>
  /\ Len(input.contours) = 2
  /\ input.contours[1].area = 2
  /\ input.contours[2].area = 0
  /\ output.best = 0

\* C32: at most one row is written per tick; a capture step is taken only on
\* a tick whose time is at least interval after the tick time of the previous
\* capture step (or after the session start), so the number of rows times the
\* interval never exceeds the time since the session start; a tick on which
\* several intervals have elapsed makes one capture and restarts the interval
\* from its own time.
C32_CapturePacing ==
  /\ rowsTick <= 1
  /\ (due = "yes") => current_time - lct0 >= interval
  /\ (Len(log) > 0) =>
       /\ Len(log) * interval <= current_time - start_time
       /\ Len(log) * interval <= now - start_time
  /\ (pc = "sleep" /\ due = "yes") => last_capture_time = current_time
  /\ (pc = "sleep" /\ due = "no") => last_capture_time = lct0

C32_Witness ==
  /\ pc = "sleep"
  /\ due = "yes"
  /\ interval = 1
  /\ current_time - lct0 >= 2 * interval
  /\ rowsTick = 1
  /\ Len(log) = 1

\* C33 as stated: two ticks of a session that write an image never write to
\* the same file path, so once a tick is complete the session directory holds
\* as many image files as the log has rows.
C33_OneFilePerCapture ==
  /\ \A i, j \in DOMAIN log : i # j => log[i].filepath # log[j].filepath
  /\ (pc = "sleep") => Cardinality(images) = Len(log)

\* C34: a row with detection_found = True carries the centroid and the area
\* of the detection of the tick that wrote it, and a row with detection_found
\* = False has the three fields blank.
C34_RowFieldsMatchDetection ==
  /\ \A i \in DOMAIN log :
       IF log[i].detection_found
       THEN /\ log[i].center_x \in Nat
            /\ log[i].center_y \in Nat
            /\ log[i].area \in Nat
       ELSE /\ log[i].center_x = None
            /\ log[i].center_y = None
            /\ log[i].area = None
  /\ (rowsTick = 1) =>
       IF detection_info # None
       THEN /\ log[Len(log)].detection_found
            /\ log[Len(log)].center_x = detection_info[1]
            /\ log[Len(log)].center_y = detection_info[2]
            /\ log[Len(log)].area = detection_info[3]
       ELSE ~log[Len(log)].detection_found

C34_Witness ==
  /\ Len(log) = 2
  /\ rowsTick = 1
  /\ log[1].detection_found
  /\ ~log[2].detection_found
  /\ log[2].area = None
  /\ log[1].center_x # log[1].center_y

\* C38: every PWM command of the session (init_servo, the loop, the cleanup)
\* has a duty cycle from MIN_DUTY to MAX_DUTY: move_servo maps the angle
\* linearly, 0 to MIN_DUTY and 180 to MAX_DUTY, and the session commands only
\* CLOSE_ANGLE (0, duty 2.5 %) and OPEN_ANGLE (90, duty 7.5 %).  Duties are in
\* tenths of a percent.  (The mapping does not depend on the state; its range
\* over all angles is evaluated where init_servo is about to run.)
C38_DutyWithinRange ==
  /\ pwm \in { NoPwm, CLOSED_DUTY, OPEN_DUTY }
  /\ (pwm # NoPwm) => (MIN_DUTY <= pwm /\ pwm <= MAX_DUTY)
  /\ (pc \in { "capture", "log", "stamp", "sleep" } /\ cmdTick # "NONE") =>
       pwm = DutyOf(AngleOf(cmdTick))
  /\ AngleOf("OPEN") = 90 /\ AngleOf("CLOSED") = 0
  /\ CLOSED_DUTY = 25 /\ OPEN_DUTY = 75
  /\ DutyOf(0) = MIN_DUTY /\ DutyOf(180) = MAX_DUTY
  /\ (pc = "init_servo") =>
       \A a \in 0..180 :
         /\ MIN_DUTY <= DutyOf(a) /\ DutyOf(a) <= MAX_DUTY
         /\ 180 * (DutyOf(a) - MIN_DUTY) <= (MAX_DUTY - MIN_DUTY) * a
         /\ (MAX_DUTY - MIN_DUTY) * a < 180 * (DutyOf(a) - MIN_DUTY + 1)

C38_Witness ==
  /\ pc = "capture"
  /\ cmdTick = "OPEN"
  /\ pwm = OPEN_DUTY
  /\ pwm = 75

\* C35: the tick reports the FPS exactly when at least FPS_WINDOW seconds
\* lie between its time sample and the start of the window (the previous
\* report, or the session start); a report sets the tick counter to 0 and the
\* window start to the tick's time sample; without a report the counter grows
\* by one, once in every loop iteration and before the frame is read, so an
\* iteration with a failed read is counted like any other.  (A step to
\* "finally" is the KeyboardInterrupt, which ends the loop wherever it is.)
C35_FpsReporting ==
  /\ [](/\ (pc \in { "read", "detect", "test" } /\ fps_report = NoFps)
             => (frame_count = iterations /\ misses <= frame_count)
        /\ (pc = "count") => frame_count + 1 = iterations
        /\ (pc \in { "read", "detect" } /\ fps_report # NoFps)
             => (frame_count = 0 /\ fps_time = current_time)
        /\ (pc \in { "count", "read", "detect" })
             => (fps_time <= current_time /\ start_time <= fps_time))
  /\ [][ /\ (pc = "count" /\ pc' # "finally") =>
              /\ pc' = "read"
              /\ (fps_report' # NoFps) <=> (current_time - fps_time >= FPS_WINDOW)
              /\ IF fps_report' # NoFps
                 THEN /\ frame_count' = 0
                      /\ fps_time' = current_time
                      /\ fps_report' * (current_time - fps_time)
                           <= 100 * (frame_count + 1)
                 ELSE /\ frame_count' = frame_count + 1
                      /\ fps_time' = fps_time
         /\ (pc # "count") =>
              (frame_count' = frame_count /\ fps_time' = fps_time)
         /\ (pc = "test" /\ pc' # "finally") => pc' = "count"
         /\ (pc = "read" /\ ~ret') => (pc' \in { "test", "finally" }) ]_vars

C35_Witness ==
  /\ pc = "read"
  /\ fps_report = Fps(MaxTicks, FPS_WINDOW)
  /\ misses >= 1
  /\ frame_count = 0
  /\ fps_time = current_time
  /\ fps_time > start_time

\* C36 as stated: when init_camera raises RuntimeError or has moved on past
\* a candidate, no capture device opened during the search is left open:
\* every device that was opened and rejected, or whose configuration or test
\* read raised, has been released.
C36_NoDeviceLeftOpen ==
  (pc = "returned") =>
    /\ held = {}
    /\ Unreleased(input.outcomes, input.strict, 1, 0, {}) = {}

\* The loop of the sweep commands TARGET_ANGLE, START_ANGLE, TARGET_ANGLE, ...
SweepAlternates ==
  \A k \in DOMAIN sweep :
    sweep[k] = IF k % 2 = 1 THEN TARGET_ANGLE ELSE START_ANGLE

\* C37 as stated: in the standalone sweep successive loop iterations command
\* strictly alternating positions starting with TARGET_ANGLE, and whenever the
\* script ends, by deadline or by KeyboardInterrupt, the last position
\* commanded before the GPIO is freed is START_ANGLE.
C37_SweepAlternatesAndEndsAtStart ==
  /\ SweepAlternates
  /\ (pc \in { "cleanup_close", "done" } /\ pin = "free" /\ pwm # NoPwm
        /\ outcome \in { "deadline", "interrupt" })
       => pwm = angle_to_duty(START_ANGLE)

=============================================================================
